---- MODULE Spec2Model ----
(***************************************************************************)
(* solveKnapsack of src/src/KnapsackOpenHouse.tsx: the 0-1 knapsack        *)
(* dynamic programme (table fill, backward reconstruction, return).        *)
(* One call of the function is a run of the state machine: Call allocates  *)
(* the table, FillRowStep is one iteration of the outer fill loop,         *)
(* WalkStep one iteration of the reconstruction loop, Return builds the    *)
(* returned object.  The same loop bodies, iterated by recursion, give the *)
(* function as the operator SolveKnapsack, used where a claim relates two  *)
(* calls.                                                                  *)
(***************************************************************************)
EXTENDS Integers, Sequences, FiniteSets

\* ---------------------------------------------------------------- bounds
MaxN == 3
MaxWeight == 2
MaxValue == 1
MaxCap == 2

\* ---------------------------------------------------------------- inputs
\* Item ids: strings, pairwise distinct (the ids of the test items).
IdPool == <<"a", "b", "c", "d", "x", "y", "z">>

\* type Item: id, weight, value (name and emoji are not read by the solver).
MkItem(id, w, v) == [id |-> id, weight |-> w, value |-> v]

\* The item lists of length n: item k carries the k-th id of the pool.
ItemListsOfLen(n) ==
  { [k \in 1..n |-> MkItem(IdPool[k], ws[k], vs[k])] :
      ws \in [1..n -> 0..MaxWeight], vs \in [1..n -> 0..MaxValue] }

ItemLists == UNION { ItemListsOfLen(n) : n \in 0..MaxN }

\* ------------------------------------------------------------- the solver
\* Math.max
Max(a, b) == IF a >= b THEN a ELSE b

\* NewTable with the cells filled with 1.
NewTableOnes(n, cap) == [r \in 0..n |-> [col \in 0..cap |-> 1]]

\* Array.from({ length: n + 1 }, () => Array(capacity + 1).fill(0))
NewTable(n, cap) == [r \in 0..n |-> [col \in 0..cap |-> 0]]

\* FillCell with the fit test w < col.
FillCellStrict(tab, its, row, col) ==
  LET w == its[row].weight
      v == its[row].value
  IN  IF w < col
        THEN Max(tab[row - 1][col], tab[row - 1][col - w] + v)
        ELSE tab[row - 1][col]

\* FillCell that takes the item whenever it fits, without the maximum.
FillCellNoMax(tab, its, row, col) ==
  LET w == its[row].weight
      v == its[row].value
  IN  IF w <= col
        THEN tab[row - 1][col - w] + v
        ELSE tab[row - 1][col]

\* FillCell that clamps the column index at 0 in place of the fit test.
FillCellClamped(tab, its, row, col) ==
  LET w == its[row].weight
      v == its[row].value
  IN  Max(tab[row - 1][col], tab[row - 1][Max(col - w, 0)] + v)

\* The body of the inner loop: the value written to dp[i][col].
FillCell(tab, its, row, col) ==
  LET w == its[row].weight
      v == its[row].value
  IN  IF w <= col
        THEN Max(tab[row - 1][col], tab[row - 1][col - w] + v)
        ELSE tab[row - 1][col]

\* FillRow whose loop starts at column 1.
FillRowFromOne(tab, its, cap, row) ==
  [tab EXCEPT ![row] =
     [col \in 0..cap |-> IF col = 0 THEN 0 ELSE FillCell(tab, its, row, col)]]

\* The inner loop, col = 0..capacity: row `row` is written from row `row - 1`.
FillRow(tab, its, cap, row) ==
  [tab EXCEPT ![row] = [col \in 0..cap |-> FillCell(tab, its, row, col)]]

\* The outer loop from `row` to n.
RECURSIVE FillFrom(_, _, _, _)
FillFrom(tab, its, cap, row) ==
  IF row > Len(its)
    THEN tab
    ELSE FillFrom(FillRow(tab, its, cap, row), its, cap, row + 1)

\* WalkBody without c -= weight.
WalkBodyKeepsBudget(tab, its, row, st) ==
  IF tab[row][st.c] # tab[row - 1][st.c]
    THEN [c |-> st.c, chosen |-> Append(st.chosen, its[row].id)]
    ELSE st

\* WalkBody that marks the item whenever including it reaches the cell's value.
WalkBodyPrefersInclude(tab, its, row, st) ==
  IF /\ its[row].weight <= st.c
     /\ tab[row][st.c] = tab[row - 1][st.c - its[row].weight] + its[row].value
    THEN [c |-> st.c - its[row].weight, chosen |-> Append(st.chosen, its[row].id)]
    ELSE st

\* The body of the reconstruction loop on the walk's state (c, chosen).
WalkBody(tab, its, row, st) ==
  IF tab[row][st.c] # tab[row - 1][st.c]
    THEN [c |-> st.c - its[row].weight, chosen |-> Append(st.chosen, its[row].id)]
    ELSE st

\* The reconstruction loop from `row` down to 1.
RECURSIVE WalkFrom(_, _, _, _)
WalkFrom(tab, its, row, st) ==
  IF row < 1
    THEN st
    ELSE WalkFrom(tab, its, row - 1, WalkBody(tab, its, row, st))

\* chosen.reverse()
Reverse(s) == [k \in 1..Len(s) |-> s[Len(s) + 1 - k]]

\* new Set(chosen)
ToSet(s) == { s[k] : k \in 1..Len(s) }

\* MakeResult that reads bestValue from column 0.
MakeResultFirstColumn(tab, its, cap, ch) ==
  [bestValue |-> tab[Len(its)][0], chosenIds |-> ToSet(Reverse(ch)), table |-> tab]

\* The returned object.
MakeResult(tab, its, cap, ch) ==
  [bestValue |-> tab[Len(its)][cap], chosenIds |-> ToSet(Reverse(ch)), table |-> tab]

\* The whole function.
SolveKnapsack(its, cap) ==
  LET tab == FillFrom(NewTable(Len(its), cap), its, cap, 1)
      st  == WalkFrom(tab, its, Len(its), [c |-> cap, chosen |-> <<>>])
  IN  MakeResult(tab, its, cap, st.chosen)

\* ------------------------------------------------------------------ state
\* items, capacity: the arguments; dp, i, c, chosen: the locals; result: the
\* returned object.  The caller's side: given, the arguments as the caller
\* passed them to its first call, and first, what that call returned.
VARIABLES items, capacity, pc, dp, i, c, chosen, result, given, first

vars == <<items, capacity, pc, dp, i, c, chosen, result, given, first>>

\* No call has returned yet.
NoResult == [bestValue |-> -1, chosenIds |-> {}, table |-> <<>>]

\* r is an object a call returned.
Returned(r) == r.bestValue >= 0

Init ==
  /\ items \in ItemLists
  /\ capacity \in 0..MaxCap
  /\ pc = "start"
  /\ dp = <<>>
  /\ i = 0
  /\ c = 0
  /\ chosen = <<>>
  /\ result = NoResult
  /\ given = [items |-> items, capacity |-> capacity]
  /\ first = NoResult

\* Entry: n, the zero table, i = 1.
Call ==
  /\ pc = "start"
  /\ dp' = NewTable(Len(items), capacity)
  /\ i' = 1
  /\ pc' = "fill"
  /\ UNCHANGED <<items, capacity, c, chosen, result, given, first>>

\* One iteration of the outer fill loop.
FillRowStep ==
  /\ pc = "fill"
  /\ i <= Len(items)
  /\ dp' = FillRow(dp, items, capacity, i)
  /\ i' = i + 1
  /\ UNCHANGED <<items, capacity, pc, c, chosen, result, given, first>>

\* The fill loop ends; c = capacity, chosen = [], i = n.
StartWalk ==
  /\ pc = "fill"
  /\ i > Len(items)
  /\ c' = capacity
  /\ chosen' = <<>>
  /\ i' = Len(items)
  /\ pc' = "walk"
  /\ UNCHANGED <<items, capacity, dp, result, given, first>>

\* One iteration of the reconstruction loop.
WalkStep ==
  /\ pc = "walk"
  /\ i >= 1
  /\ LET st == WalkBody(dp, items, i, [c |-> c, chosen |-> chosen])
     IN  /\ c' = st.c
         /\ chosen' = st.chosen
  /\ i' = i - 1
  /\ UNCHANGED <<items, capacity, pc, dp, result, given, first>>

\* Return with items.reverse() in place of chosen.reverse().
ReturnReversesItems ==
  /\ pc = "walk"
  /\ i < 1
  /\ result' = MakeResult(dp, items, capacity, chosen)
  /\ items' = Reverse(items)
  /\ pc' = "done"
  /\ UNCHANGED <<capacity, dp, i, c, chosen, given, first>>

\* The reconstruction loop ends; the function returns.
Return ==
  /\ pc = "walk"
  /\ i < 1
  /\ result' = MakeResult(dp, items, capacity, chosen)
  /\ pc' = "done"
  /\ UNCHANGED <<items, capacity, dp, i, c, chosen, given, first>>

Next == Call \/ FillRowStep \/ StartWalk \/ WalkStep \/ Return

Spec == Init /\ [][Next]_vars

\* The caller invokes the function a second time with the same two arguments
\* (the objects it holds), keeping what the first call returned.  What the
\* first call left in its locals is still there: the second call reads none
\* of it unless the code fails to initialise a local.
CallAgain ==
  /\ pc = "done"
  /\ ~Returned(first)
  /\ first' = result
  /\ result' = NoResult
  /\ pc' = "start"
  /\ UNCHANGED <<items, capacity, dp, i, c, chosen, given>>

NextTwice == Next \/ CallAgain

\* Two calls in a row on the same arguments.
SpecTwice == Init /\ [][NextTwice]_vars

\* ------------------------------------------------- what the claims speak of
\* The call has returned.
Done == pc = "done"

n == Len(items)

RECURSIVE TotalWeight(_, _)
\* The total weight of the items of `its` at the positions in S.
TotalWeight(its, S) ==
  IF S = {} THEN 0
  ELSE LET k == CHOOSE x \in S : TRUE
       IN  its[k].weight + TotalWeight(its, S \ {k})

RECURSIVE TotalValue(_, _)
\* The total value of the items of `its` at the positions in S.
TotalValue(its, S) ==
  IF S = {} THEN 0
  ELSE LET k == CHOOSE x \in S : TRUE
       IN  its[k].value + TotalValue(its, S \ {k})

\* The subsets of the first k items whose total weight is within budget b.
Feasible(its, k, b) == { S \in SUBSET (1..k) : TotalWeight(its, S) <= b }

\* The largest total value of a feasible subset of the first k items.
Optimum(its, k, b) ==
  LET vals == { TotalValue(its, S) : S \in Feasible(its, k, b) }
  IN  CHOOSE m \in vals : \A x \in vals : x <= m

\* The positions of the items whose ids were returned in chosenIds.
ChosenIdx == { k \in 1..n : items[k].id \in result.chosenIds }

\* C1: the returned bestValue is the maximum total value over all subsets of
\* the items (each used at most once) whose total weight is <= capacity.
C1_BestValueOptimal ==
  Done => result.bestValue = Optimum(items, n, capacity)

\* A call returned where the optimum takes some items and leaves some that
\* would fit on their own, and is positive.
C1_Witness ==
  /\ Done
  /\ n = MaxN
  /\ result.bestValue > 0
  /\ result.bestValue < TotalValue(items, 1..n)
  /\ \E k \in 1..n : items[k].weight <= capacity /\ items[k].id \notin result.chosenIds
                     /\ items[k].value > 0

\* C2: the items whose ids are in chosenIds weigh at most capacity in total
\* and their values add up to exactly bestValue.
C2_SelectionValid ==
  Done => /\ TotalWeight(items, ChosenIdx) <= capacity
          /\ TotalValue(items, ChosenIdx) = result.bestValue

\* A call returned a selection of two or more items that fills the budget.
C2_Witness ==
  /\ Done
  /\ Cardinality(result.chosenIds) >= 2
  /\ TotalWeight(items, ChosenIdx) = capacity
  /\ result.bestValue > 0

\* C3: the table has n+1 rows and capacity+1 columns, and table[r][b] is the
\* maximum total value of a subset of the first r items of weight <= b.
C3_TableOptimal ==
  Done =>
    LET t == result.table
        wv == [S \in SUBSET (1..n) |-> <<TotalWeight(items, S), TotalValue(items, S)>>]
    IN  /\ DOMAIN t = 0..n
        /\ \A r \in 0..n :
             /\ DOMAIN t[r] = 0..capacity
             /\ \A b \in 0..capacity :
                  /\ \A S \in SUBSET (1..r) : wv[S][1] <= b => wv[S][2] <= t[r][b]
                  /\ \E S \in SUBSET (1..r) : wv[S][1] <= b /\ wv[S][2] = t[r][b]

\* A returned table whose last row differs from the row above it and whose
\* rows are not constant.
C3_Witness ==
  /\ Done
  /\ n >= 2
  /\ capacity >= 2
  /\ result.table[n][capacity] > result.table[n - 1][capacity]
  /\ result.table[n - 1][capacity] > result.table[n - 1][capacity - 1]
  /\ result.table[1][capacity] > 0

\* An item of weight 0 whose value is positive: it fits any budget, 0 included.
FreeItems(r) == { k \in 1..r : items[k].weight = 0 /\ items[k].value > 0 }

\* C4 as stated: with capacity 0 and a non-empty list, bestValue is 0 and
\* chosenIds is empty (items of weight 0 included in the quantification).
C4_ZeroCapacityAsStated ==
  (Done /\ capacity = 0 /\ n >= 1) =>
    (result.bestValue = 0 /\ result.chosenIds = {})

\* C4, amended: with capacity 0 and a non-empty list, bestValue is the total
\* value of the items of weight 0 and chosenIds holds exactly the items of
\* weight 0 and positive value; both are 0 and empty when there is no such item.
C4_ZeroCapacity ==
  (Done /\ capacity = 0 /\ n >= 1) =>
    /\ result.bestValue = TotalValue(items, FreeItems(n))
    /\ result.chosenIds = { items[k].id : k \in FreeItems(n) }
    /\ (FreeItems(n) = {} => (result.bestValue = 0 /\ result.chosenIds = {}))

\* A call with capacity 0 returned for a list of valuable items all of
\* positive weight.
C4_Witness ==
  /\ Done
  /\ capacity = 0
  /\ n >= 2
  /\ \A k \in 1..n : items[k].weight >= 1 /\ items[k].value >= 1
  /\ result.bestValue = 0
  /\ result.chosenIds = {}

\* C5 as stated: every cell of row 0 and every cell of column 0 is zero.
C5_BaseCasesAsStated ==
  Done =>
    /\ \A b \in 0..capacity : result.table[0][b] = 0
    /\ \A r \in 0..n : result.table[r][0] = 0

\* C5, amended: every cell of row 0 is zero, and table[r][0] is the total value
\* of the items of weight 0 among the first r items, so column 0 is zero down
\* to row r exactly when none of the first r items has weight 0 and a positive
\* value.
C5_BaseCases ==
  Done =>
    /\ \A b \in 0..capacity : result.table[0][b] = 0
    /\ \A r \in 0..n : result.table[r][0] = TotalValue(items, FreeItems(r))
    /\ \A r \in 0..n : (FreeItems(r) = {}) <=> (\A q \in 0..r : result.table[q][0] = 0)

\* A returned table with a positive cell, whose column 0 is zero throughout.
C5_Witness ==
  /\ Done
  /\ n >= 2
  /\ capacity >= 1
  /\ FreeItems(n) = {}
  /\ result.table[n][capacity] > 0
  /\ \A r \in 0..n : result.table[r][0] = 0

\* The highest position in a non-empty set of positions.
Highest(S) == CHOOSE j \in S : \A k \in S : k <= j

\* The walk has just marked item i + 1 as chosen.
JustMarked ==
  /\ pc = "walk"
  /\ i < n
  /\ Len(chosen) >= 1
  /\ chosen[Len(chosen)] = items[i + 1].id

\* C6: among the optimal subsets the walk returns the one that excludes the
\* latest items.  An item is marked only at a cell where including it beats
\* excluding it (never on a tie), and for every other feasible subset S of
\* value bestValue the highest position on which S and the returned selection
\* differ is in S and not in the selection.
C6_TieBreakExcludesLatest ==
  /\ JustMarked =>
       LET w == items[i + 1].weight
           b == c + w
       IN  /\ w <= b
           /\ dp[i][b - w] + items[i + 1].value > dp[i][b]
  /\ Done =>
       \A S \in SUBSET (1..n) :
         ( /\ S # ChosenIdx
           /\ TotalWeight(items, S) <= capacity
           /\ TotalValue(items, S) = result.bestValue )
         => LET j == Highest((S \ ChosenIdx) \cup (ChosenIdx \ S))
            IN  j \in S /\ j \notin ChosenIdx

\* Two identical valuable items that each fit alone but not together: the
\* earlier one was returned, the later one was not.
C6_Witness ==
  /\ Done
  /\ n = 2
  /\ items[1].weight = items[2].weight
  /\ items[1].value = items[2].value
  /\ items[1].value > 0
  /\ items[1].weight <= capacity
  /\ 2 * items[1].weight > capacity
  /\ result.chosenIds = {items[1].id}

\* C7: when every item weighs more than capacity, bestValue is 0 and
\* chosenIds is empty.
C7_AllTooHeavy ==
  (Done /\ \A k \in 1..n : items[k].weight > capacity) =>
    (result.bestValue = 0 /\ result.chosenIds = {})

\* A call returned for two or more valuable items, each heavier than a
\* positive capacity.
C7_Witness ==
  /\ Done
  /\ n >= 2
  /\ capacity >= 1
  /\ \A k \in 1..n : items[k].weight > capacity /\ items[k].value > 0
  /\ result.bestValue = 0
  /\ result.chosenIds = {}

\* C8: for the same items, a call with a capacity c1 <= capacity returns a
\* bestValue no larger than this call's.
C8_MonotoneInCapacity ==
  Done => \A c1 \in 0..capacity :
            SolveKnapsack(items, c1).bestValue <= result.bestValue

\* A call returned whose bestValue is strictly above that of a smaller
\* capacity and equal to that of another smaller capacity.
C8_Witness ==
  /\ Done
  /\ capacity >= 2
  /\ SolveKnapsack(items, 0).bestValue < result.bestValue
  /\ SolveKnapsack(items, capacity - 1).bestValue = result.bestValue

\* `its` with `it` inserted so that it stands at position p.
InsertAt(its, p, it) ==
  [k \in 1..(Len(its) + 1) |->
     IF k < p THEN its[k] ELSE IF k = p THEN it ELSE its[k - 1]]

\* The lists made from the items by inserting one valid item with a fresh id.
Insertions ==
  { InsertAt(items, p, MkItem(IdPool[n + 1], w, v)) :
      p \in 1..(n + 1), w \in 0..MaxWeight, v \in 0..MaxValue }

\* C9: for the same capacity, a call on the list with one more valid item
\* inserted at any position returns a bestValue no smaller than this call's.
C9_MonotoneInItems ==
  (Done /\ n < MaxN) =>
    \A its \in Insertions :
      SolveKnapsack(its, capacity).bestValue >= result.bestValue

\* A call returned for a non-empty list that has an insertion raising
\* bestValue and an insertion in the middle leaving it unchanged.
C9_Witness ==
  /\ Done
  /\ n >= 2
  /\ n < MaxN
  /\ result.bestValue > 0
  /\ \E its \in Insertions : SolveKnapsack(its, capacity).bestValue > result.bestValue
  /\ \E w \in 1..MaxWeight, v \in 1..MaxValue :
       SolveKnapsack(InsertAt(items, 2, MkItem(IdPool[n + 1], w, v)), capacity).bestValue
         = result.bestValue

\* C10: the returned bestValue is the bottom-right cell of the returned table.
C10_BestValueIsLastCell ==
  Done => result.bestValue = result.table[n][capacity]

\* A call returned whose bottom-right cell is positive and larger than every
\* other cell of the last column and of the last row.
C10_Witness ==
  /\ Done
  /\ n >= 2
  /\ capacity >= 1
  /\ result.bestValue > 0
  /\ \A r \in 0..(n - 1) : result.table[r][capacity] < result.bestValue
  /\ \A b \in 0..(capacity - 1) : result.table[n][b] < result.bestValue

\* Two returned objects with the same bestValue, the same chosenIds and the
\* same table, cell by cell.
SameResult(a, b) ==
  /\ a.bestValue = b.bestValue
  /\ a.chosenIds = b.chosenIds
  /\ DOMAIN a.table = DOMAIN b.table
  /\ \A r \in DOMAIN a.table :
       /\ DOMAIN a.table[r] = DOMAIN b.table[r]
       /\ \A col \in DOMAIN a.table[r] : a.table[r][col] = b.table[r][col]

\* C11: a second call on the same arguments returns the same bestValue, the
\* same table cell by cell and the same chosenIds as the first; each result is
\* what the function of the two arguments gives; and no step of either call
\* changes the item list or the capacity the caller passed.
C11_SameArgumentsSameResult ==
  /\ items = given.items
  /\ capacity = given.capacity
  /\ (Done /\ Returned(first)) =>
       /\ SameResult(result, first)
       /\ SameResult(result, SolveKnapsack(given.items, given.capacity))

\* The second call returned after a first call that chose some items and
\* left a positive budget and a non-empty chosen array behind.
C11_Witness ==
  /\ Done
  /\ Returned(first)
  /\ n >= 2
  /\ Cardinality(first.chosenIds) >= 1
  /\ Cardinality(first.chosenIds) < n
  /\ first.bestValue > 0
  /\ c >= 1

\* What every step of the call satisfies for the walk to be a backtrace.
WalkIsBacktraceStep ==
  \* the walk starts at (n, capacity)
  /\ (pc = "fill" /\ pc' = "walk") =>
       (i' = n /\ c' = capacity /\ chosen' = <<>>)
  \* the budget and the row stay inside the table
  /\ pc' = "walk" => (c' \in 0..capacity /\ i' \in 0..n)
  \* each iteration visits row i and moves to row i - 1
  /\ (pc = "walk" /\ pc' = "walk") =>
       /\ i >= 1
       /\ i' = i - 1
       /\ \/ \* item i is marked: it fits, and including it gives the cell's
             \* value, which is above the value without it
             /\ chosen' = Append(chosen, items[i].id)
             /\ items[i].weight <= c
             /\ dp[i][c] = dp[i - 1][c - items[i].weight] + items[i].value
             /\ dp[i][c] > dp[i - 1][c]
             /\ c' = c - items[i].weight
          \/ \* item i is not marked: the cell equals the one above
             /\ chosen' = chosen
             /\ dp[i][c] = dp[i - 1][c]
             /\ c' = c
  \* the walk ends at row 0 and only there, after n iterations
  /\ (pc = "walk" /\ pc' = "done") => (i = 0 /\ Len(chosen) <= n)
  /\ (pc = "walk" /\ i = 0) => pc' = "done"
  /\ (pc = "walk" /\ i >= 1) => pc' = "walk"

\* C12: the reconstruction walk from (n, capacity) down to row 0 is a valid
\* backtrace of the table: the budget c stays in 0..capacity, an item is marked
\* at cell (i, c) only if weight_i <= c and
\* table[i][c] = table[i-1][c - weight_i] + value_i > table[i-1][c], and the walk
\* visits the rows n, n-1, ..., 1 once each and ends after n iterations.
C12_WalkIsBacktrace == [][WalkIsBacktraceStep]_vars

\* The walk has reached row 0 of a full-length list having marked two items
\* and passed over another, with part of the budget used and part left.
C12_Witness ==
  /\ pc = "walk"
  /\ i = 0
  /\ n = MaxN
  /\ Len(chosen) >= 2
  /\ Len(chosen) < n
  /\ c >= 1
  /\ c < capacity

====
